---- MODULE Spec2Model ----
(***************************************************************************)
(* Workflow execution engine of AutoFlow: the in-memory job queue and its  *)
(* consumer (backend/index.js), the run walker executeWorkflow, the action *)
(* connectors and the interval scheduler (backend/scheduler.js), together  *)
(* with the two storage tables they read and write (workflows,             *)
(* workflow_runs) and the SQL trigger on workflow_runs, and the editor's   *)
(* WorkflowContext, which updates and deletes workflow definitions and     *)
(* keeps their undo history.                                               *)
(*                                                                         *)
(* Every `await` of the code is a point where another handler may run, so  *)
(* an action of this module is the stretch of code between two awaits.     *)
(* The two awaits of one addLog call (read the log, write the log) touch   *)
(* only the row of the caller's own run, which nothing else writes while   *)
(* the run is in progress, so they are taken in one step, and so are the   *)
(* awaits of one loop iteration of executeWorkflow; so are the two         *)
(* storage calls of the execute-now handler and the fetch and the loop of  *)
(* a scheduler sweep, which go on with the rows their fetch returned.      *)
(* A storage call that fails answers with an error object and no data; it  *)
(* does not throw (the contract the handlers rely on when they test        *)
(* `error`).  Job ids and run ids are drawn from one counter.  Nodes are   *)
(* stored flat (type, subtype, config), not wrapped in a `data` field.     *)
(* Time is counted in seconds.                                             *)
(***************************************************************************)
EXTENDS Integers, Sequences, FiniteSets, TLC

(* ------------------------------ bounds -------------------------------- *)
MaxRuns   == 2   \* execute-now requests that create a run record
MaxTicks  == 1   \* scheduler periods that elapse (one sweep each)
MaxFaults == 1   \* storage calls that fail

(* --------------------------- program constants ------------------------ *)
OneMinute   == 60             \* the period of the scheduler, in seconds
FiveMinutes == 300            \* parseInterval, in seconds
OneHour     == 3600
OneDay      == 86400
OneWeek     == 604800
Epoch0      == 20000 * OneDay \* Date.now() when the server starts
NullTime    == 0 - 1          \* a null timestamp column

(* ------------------------------ nodes --------------------------------- *)
NoValue == ""                 \* an absent (falsy) configuration key

Config(url, channel, message, interval) ==
  [url |-> url, channel |-> channel, message |-> message,
   operation |-> NoValue, table |-> NoValue, interval |-> interval]

NoConfig == Config(NoValue, NoValue, NoValue, NoValue)

Node(id, type, subtype, config) ==
  [id |-> id, type |-> type, subtype |-> subtype, config |-> config]

\* a null element of the nodes array (nodes is an unvalidated jsonb column)
NullNode == Node(0, "null", "null", NoConfig)

ScheduleNode == Node(1, "trigger", "schedule",
                     Config(NoValue, NoValue, NoValue, "Every 5 minutes"))
HttpNode     == Node(2, "action", "http",
                     Config("http://x", NoValue, NoValue, NoValue))
HttpNoUrl    == Node(3, "action", "http", NoConfig)
SlackNode    == Node(4, "action", "slack",
                     Config(NoValue, "#general", "hi", NoValue))

\* the configuration of a database node
DbConfig(operation, table) ==
  [NoConfig EXCEPT !.operation = operation, !.table = table]

\* the configurations of the logic nodes; an absent duration is NoDuration
NoDuration == 0 - 1
ConditionalConfig(operand1, operator, operand2) ==
  [operand1 |-> operand1, operator |-> operator, operand2 |-> operand2]
DelayConfig(duration, unit) == [duration |-> duration, unit |-> unit]
TransformConfig(transformationType) ==
  [transformationType |-> transformationType]
\* retryCount absent from a configuration
NoCount == 0 - 1
ErrorHandlerConfig(action, message, retryCount) ==
  [action |-> action, message |-> message, retryCount |-> retryCount]

\* the values an operand of a conditional may hold: a number, a string
\* (the sequence of its characters), or nothing
Num(n) == [t |-> "number", n |-> n, s |-> <<>>]
Str(s) == [t |-> "string", n |-> 0, s |-> s]
Undef  == [t |-> "undefined", n |-> 0, s |-> <<>>]

\* an element of the connections array of a workflow
Connection(source, target) == [source |-> source, target |-> target]

\* rows of the workflows table when the server starts
WorkflowIds == {1, 2, 3}
UnknownId   == 9

InitialNodes(w) ==
  CASE w = 1 -> <<HttpNoUrl, ScheduleNode>>
    [] w = 2 -> <<HttpNode, SlackNode>>
    [] OTHER -> <<NullNode>>

InitialWorkflows ==
  [w \in WorkflowIds |->
     [id |-> w, enabled |-> (w = 1), nodes |-> InitialNodes(w),
      connections |-> <<>>, last_run_at |-> NullTime]]

\* the value of job.workflow and job.runId on a job that has neither
Undefined == [id |-> 0, nodes |-> <<>>, connections |-> <<>>]
NoRun     == 0

(* --------------------------- pure functions --------------------------- *)
\* scheduler.js parseInterval, in seconds
parseInterval(interval) ==
  CASE interval = "Every 5 minutes" -> FiveMinutes
    [] interval = "Every hour"      -> OneHour
    [] interval = "Daily"           -> OneDay
    [] interval = "Weekly"          -> OneWeek
    [] OTHER                        -> OneHour

IsScheduleTrigger(node) == node.type = "trigger" /\ node.subtype = "schedule"

\* index of the first schedule trigger of the array, 0 when there is none,
\* -1 when the scan reads a property of a null element first (TypeError)
RECURSIVE findSchedule(_, _)
findSchedule(nodes, i) ==
  IF i > Len(nodes) THEN 0
  ELSE IF nodes[i] = NullNode THEN 0 - 1
  ELSE IF IsScheduleTrigger(nodes[i]) THEN i
  ELSE findSchedule(nodes, i + 1)

\* a comparison that asks for more than the interval
shouldRunWorkflow_strict(workflow, t) ==
  LET k == findSchedule(workflow.nodes, 1) IN
  IF k <= 0 THEN FALSE
  ELSE IF workflow.nodes[k].config.interval = NoValue THEN FALSE
  ELSE LET interval == parseInterval(workflow.nodes[k].config.interval)
           lastRun  == IF workflow.last_run_at = NullTime THEN 0
                       ELSE workflow.last_run_at
       IN  (t - lastRun) > interval

\* scheduler.js shouldRunWorkflow at time t
shouldRunWorkflow(workflow, t) ==
  LET k == findSchedule(workflow.nodes, 1) IN
  IF k <= 0 THEN FALSE
  ELSE IF workflow.nodes[k].config.interval = NoValue THEN FALSE
  ELSE LET interval == parseInterval(workflow.nodes[k].config.interval)
           lastRun  == IF workflow.last_run_at = NullTime THEN 0
                       ELSE workflow.last_run_at
       IN  (t - lastRun) >= interval

\* outcomes of the network call of an http node
HttpOutcomes == {"2xx", "non2xx", "timeout", "neterr"}

Outcomes(node) ==
  IF node.type = "action" /\ node.subtype = "http" /\ node.config.url # NoValue
  THEN HttpOutcomes ELSE {"2xx"}

\* error messages, as their words; no message is the empty sequence
NoMessage         == <<>>
UrlRequired       == <<"URL", "is", "required", "for", "HTTP", "requests">>
HttpTimeout       == <<"HTTP", "request", "timeout", "after", "30",
                       "seconds">>
HttpFailed        == <<"HTTP", "request", "failed">>
SlackRequired     == <<"Channel", "and", "message", "are", "required",
                       "for", "Slack", "notifications">>
DatabaseRequired  == <<"Operation", "and", "table", "are", "required",
                       "for", "database", "operations">>
NullNodeError     == <<"Cannot", "read", "properties", "of", "null">>

\* what an executor did: it returned an object with this `success` (and,
\* for a conditional, this `result`: <<b>>), or it threw this message;
\* `called` tells whether it got as far as its external call
Returned(ok)  == [threw |-> FALSE, error |-> NoMessage, success |-> ok,
                  value |-> <<>>, called |-> FALSE]
Thrown(msg)   == [threw |-> TRUE, error |-> msg, success |-> FALSE,
                  value |-> <<>>, called |-> FALSE]
Called(out)   == [out EXCEPT !.called = TRUE]

\* connectors/httpConnector.js executeHttpRequest
executeHttpRequest(config, ext) ==
  IF config.url = NoValue THEN Thrown(UrlRequired)
  ELSE CASE ext = "2xx"     -> Called(Returned(TRUE))
         [] ext = "non2xx"  -> Called(Returned(FALSE))
         [] ext = "timeout" -> Called(Thrown(HttpTimeout))
         [] OTHER           -> Called(Thrown(HttpFailed))

\* connectors/slackConnector.js sendSlackMessage (the call to Slack is
\* simulated by a timer)
sendSlackMessage(config) ==
  IF config.channel = NoValue \/ config.message = NoValue
  THEN Thrown(SlackRequired)
  ELSE Called(Returned(TRUE))

\* a connector that does not look at its configuration
executeDatabaseOperation_lax(config) == Called(Returned(TRUE))

\* connectors/databaseConnector.js executeDatabaseOperation (the query
\* is simulated by a timer)
executeDatabaseOperation(config) ==
  IF config.operation = NoValue \/ config.table = NoValue
  THEN Thrown(DatabaseRequired)
  ELSE Called(Returned(TRUE))

(* the logic handlers of index.js *)
Digit(d) == <<"0", "1", "2", "3", "4", "5", "6", "7", "8", "9">>[d + 1]
IsDigit(c) == \E d \in 0..9 : Digit(d) = c
DigitValue(c) == CHOOSE d \in 0..9 : Digit(d) = c

\* String(v), for a number below 100
String(v) ==
  CASE v.t = "string" -> v.s
    [] v.t = "number" -> IF v.n < 10 THEN <<Digit(v.n)>>
                         ELSE <<Digit(v.n \div 10), Digit(v.n % 10)>>
    [] OTHER -> <<"u", "n", "d", "e", "f", "i", "n", "e", "d">>

\* the value of the digits a string starts with
RECURSIVE parseDigits(_, _, _)
parseDigits(s, i, acc) ==
  IF i > Len(s) \/ ~IsDigit(s[i]) THEN acc
  ELSE parseDigits(s, i + 1, 10 * acc + DigitValue(s[i]))

\* parseFloat(v): the number the string of v starts with, NaN when it
\* starts with none (no sign, point or exponent among the inputs)
NaN == [nan |-> TRUE, n |-> 0]
parseFloat(v) ==
  LET s == String(v) IN
  IF s = <<>> \/ ~IsDigit(s[1]) THEN NaN
  ELSE [nan |-> FALSE, n |-> parseDigits(s, 1, 0)]

\* a > b on numbers: false when either is NaN
greaterThan(a, b) == ~a.nan /\ ~b.nan /\ a.n > b.n

startsWith(s, t) == Len(t) <= Len(s) /\ SubSeq(s, 1, Len(t)) = t
endsWith(s, t) ==
  Len(t) <= Len(s) /\ SubSeq(s, Len(s) - Len(t) + 1, Len(s)) = t
includes(s, t) ==
  \E k \in 0..(Len(s) - Len(t)) : SubSeq(s, k + 1, k + Len(t)) = t

\* executeConditional: `===` and `!==` compare the operands as they are,
\* without coercion
executeConditional(config) ==
  LET operand1 == config.operand1
      operand2 == config.operand2
      operator == config.operator
      result ==
        CASE operator = "equals"       -> operand1 = operand2
          [] operator = "not_equals"   -> operand1 # operand2
          [] operator = "greater_than" ->
               greaterThan(parseFloat(operand1), parseFloat(operand2))
          [] operator = "less_than"    ->
               greaterThan(parseFloat(operand2), parseFloat(operand1))
          [] operator = "contains"     ->
               includes(String(operand1), String(operand2))
          [] operator = "starts_with"  ->
               startsWith(String(operand1), String(operand2))
          [] operator = "ends_with"    ->
               endsWith(String(operand1), String(operand2))
          [] OTHER                     -> FALSE
  IN  [Returned(TRUE) EXCEPT !.value = <<result>>]

\* a delay that takes every duration for seconds
milliseconds_seconds(config) ==
  IF config.duration = NoDuration THEN 5 ELSE config.duration

\* executeDelay: the time its timer is set to, in seconds (duration = 5
\* and unit = 'seconds' when absent)
milliseconds(config) ==
  LET duration == IF config.duration = NoDuration THEN 5
                  ELSE config.duration
  IN  CASE config.unit = "minutes" -> duration * 60
        [] config.unit = "hours"   -> duration * 60 * 60
        [] OTHER                   -> duration

\* what executeDelay returns when its timer has fired
executeDelay(config) == Returned(TRUE)

executeTransform(config) == Returned(TRUE)

\* index.js executeErrorHandler: every branch of its switch only logs; the
\* object it returns carries action, message and retryCount of the
\* configuration
executeErrorHandler(config) ==
  [Returned(TRUE) EXCEPT
     !.value = <<[action |-> config.action, message |-> config.message,
                  retryCount |-> config.retryCount]>>]

\* index.js executeAction / executeTrigger / executeLogicNode after their log
executeAction(node, ext) ==
  CASE node.subtype = "http"     -> executeHttpRequest(node.config, ext)
    [] node.subtype = "slack"    -> sendSlackMessage(node.config)
    [] node.subtype = "database" -> executeDatabaseOperation(node.config)
    [] OTHER                     -> Returned(TRUE)

executeTrigger(node) == Returned(TRUE)

executeLogicNode(node) ==
  CASE node.subtype = "conditional"   -> executeConditional(node.config)
    [] node.subtype = "delay"         -> executeDelay(node.config)
    [] node.subtype = "error-handler" -> executeErrorHandler(node.config)
    [] node.subtype = "transform"     -> executeTransform(node.config)
    [] OTHER                          -> Returned(TRUE)

\* does the switch of executeWorkflow call an executor (which logs first)?
HasExecutor(node) == node.type \in {"action", "trigger", "logic"}

\* the switch on node.type of executeWorkflow
Dispatch(node, ext) ==
  CASE node.type = "action"  -> executeAction(node, ext)
    [] node.type = "trigger" -> executeTrigger(node)
    [] node.type = "logic"   -> executeLogicNode(node)
    [] OTHER                 -> Returned(TRUE)

\* the NodeResult executeWorkflow pushes for an executor outcome: the
\* object the executor returned is its `result`, the message of what it
\* threw is its `error` (`called` is kept beside them, for the record)
NodeResult(node, out) ==
  [nodeId |-> node.id, type |-> node.type, subtype |-> node.subtype,
   success |-> ~out.threw, error |-> out.error,
   result |-> [success |-> out.success, result |-> out.value],
   called |-> out.called]

LogEntry(level, message, nodeId) ==
  [level |-> level, message |-> message, nodeId |-> nodeId]

\* addLog: read the stored log, append the entry, write it back.  A failed
\* read yields no row (currentRun?.logs || [] is then []); a failed write
\* leaves the stored log as it was.
addLog(logs, entry, readOk, writeOk) ==
  LET currentLogs == IF readOk THEN logs ELSE <<>>
      updatedLogs == Append(currentLogs, entry)
  IN  IF writeOk THEN updatedLogs ELSE logs

\* a set() that stores nothing
Put_skip(f, k, v) == f

Put(f, k, v) == [x \in DOMAIN f \cup {k} |-> IF x = k THEN v ELSE f[x]]
Drop(f, k)   == [x \in DOMAIN f \ {k} |-> f[x]]

(* --------------------------- WorkflowContext -------------------------- *)
\* the states addToHistory keeps: slice(-10)
MaxPast == 10

\* the context before it has fetched anything
NoEditor == [workflows |-> <<>>, workflowHistory |-> <<>>]

\* a workflow as the context holds it
Local(row) ==
  [id |-> row.id, nodes |-> row.nodes, connections |-> row.connections]

\* fetchWorkflows: the list is the rows of the table; no history yet
fetchWorkflows(table) ==
  [workflows |-> [w \in DOMAIN table |-> Local(table[w])],
   workflowHistory |-> <<>>]

\* a slice that keeps everything
slice_all(s, n) == s

\* s.slice(-n): the last n elements
slice(s, n) ==
  IF Len(s) <= n THEN s ELSE SubSeq(s, Len(s) - n + 1, Len(s))

\* addToHistory(workflowId, workflow): the history of the workflow after it
addToHistory(workflowHistory, workflowId, workflow) ==
  IF workflowId \notin DOMAIN workflowHistory
  THEN Put(workflowHistory, workflowId,
           [past |-> <<>>, present |-> workflow, future |-> <<>>])
  ELSE LET current == workflowHistory[workflowId] IN
       Put(workflowHistory, workflowId,
           [past |-> slice(Append(current.past, current.present), MaxPast),
            present |-> workflow,
            future |-> <<>>])

canUndo(e, id) ==
  id \in DOMAIN e.workflowHistory /\ Len(e.workflowHistory[id].past) > 0

canRedo(e, id) ==
  id \in DOMAIN e.workflowHistory /\ Len(e.workflowHistory[id].future) > 0

\* the context after updateWorkflow(id, {nodes}): the workflow as it is
\* goes to the history, then the row is updated, and when that succeeded
\* the list holds the workflow with the new nodes
afterUpdate(e, id, nodes, ok) ==
  [workflows |->
     IF ok /\ id \in DOMAIN e.workflows
     THEN [e.workflows EXCEPT ![id].nodes = nodes]
     ELSE e.workflows,
   workflowHistory |->
     IF id \in DOMAIN e.workflows
     THEN addToHistory(e.workflowHistory, id, e.workflows[id])
     ELSE e.workflowHistory]

\* the context after undoWorkflow(id)
afterUndo(e, id) ==
  IF ~canUndo(e, id) THEN e
  ELSE LET hist     == e.workflowHistory[id]
           previous == hist.past[Len(hist.past)]
           newPast  == SubSeq(hist.past, 1, Len(hist.past) - 1)
       IN  [workflows |->
              [w \in DOMAIN e.workflows |->
                 IF w = id THEN previous ELSE e.workflows[w]],
            workflowHistory |->
              Put(e.workflowHistory, id,
                  [past |-> newPast,
                   present |-> previous,
                   future |-> <<hist.present>> \o hist.future])]

\* the context after redoWorkflow(id)
afterRedo(e, id) ==
  IF ~canRedo(e, id) THEN e
  ELSE LET hist      == e.workflowHistory[id]
           next      == hist.future[1]
           newFuture == Tail(hist.future)
       IN  [workflows |->
              [w \in DOMAIN e.workflows |->
                 IF w = id THEN next ELSE e.workflows[w]],
            workflowHistory |->
              Put(e.workflowHistory, id,
                  [past |-> Append(hist.past, hist.present),
                   present |-> next,
                   future |-> newFuture])]

(* ------------------------------- state -------------------------------- *)
VARIABLES
  jobQueue,          \* index.js jobQueue: the array of queued jobs
  executingJobs,     \* index.js executingJobs: job id -> job
  executionResults,  \* index.js executionResults: job id -> terminal result
  workflows,         \* table workflows: id -> row
  workflow_runs,     \* table workflow_runs: id -> row
  procs,             \* processJobQueue calls suspended in an await
  timers,            \* pending setTimeout(processJobQueue, 1000)
  sweep,             \* the scheduler's checkScheduledWorkflows call
  now,               \* the clock, in seconds
  faults,            \* storage calls that have failed
  nextId,            \* job and run ids handed out so far, plus one
  halted,            \* the process was ended by an unhandled rejection
  response,          \* the last reply of the execute-now handler
  enqueued,          \* history: job ids in the order of jobQueue.push
  dequeued,          \* history: job ids in the order of jobQueue.shift
  escaped,           \* history: jobs whose processJobQueue call rejected
  editor             \* WorkflowContext: its `workflows` and `workflowHistory`

vars == <<jobQueue, executingJobs, executionResults, workflows, workflow_runs,
          procs, timers, sweep, now, faults, nextId,
          halted, response, enqueued, dequeued, escaped, editor>>

storage == <<workflows, workflow_runs>>
history == <<enqueued, dequeued, escaped>>

\* the replies of the execute-now handler
NoResponse    == [code |-> 0]
NotFound      == [code |-> 404, error |-> "Workflow not found"]
RunNotCreated == [code |-> 500, error |-> "Failed to create workflow run"]
Queued(job)   == [code |-> 200, success |-> TRUE, jobId |-> job.id,
                  runId |-> job.runId, queuePosition |-> job.position]

Init ==
  /\ jobQueue = <<>>
  /\ executingJobs = <<>>
  /\ executionResults = <<>>
  /\ workflows = InitialWorkflows
  /\ workflow_runs = <<>>
  /\ procs = <<>>
  /\ timers = 0
  /\ sweep = "due"
  /\ now = Epoch0
  /\ faults = 0
  /\ nextId = 1
  /\ halted = FALSE
  /\ response = NoResponse
  /\ enqueued = <<>>
  /\ dequeued = <<>>
  /\ escaped = {}
  /\ editor = NoEditor

\* a storage call may succeed, or fail while the fault budget lasts
StorageOk == IF faults < MaxFaults THEN {TRUE, FALSE} ELSE {TRUE}
Cost(ok)  == IF ok THEN 0 ELSE 1


(* ------------------------- storage operations ------------------------- *)
\* a table without the trigger
update_workflow_last_run_none(old, new, wfs) == wfs

\* trigger update_workflow_last_run: AFTER UPDATE ON workflow_runs
update_workflow_last_run(old, new, wfs) ==
  IF new.status \in {"completed", "failed"} /\ old.status = "running"
     /\ new.workflow_id \in DOMAIN wfs
  THEN [wfs EXCEPT ![new.workflow_id].last_run_at = new.completed_at]
  ELSE wfs

\* supabase.from('workflow_runs').update({status, completed_at}).eq('id', r)
UpdateStatus(r, status, ok) ==
  IF ok /\ r \in DOMAIN workflow_runs
  THEN LET old == workflow_runs[r]
           new == [old EXCEPT !.status = status, !.completed_at = now]
       IN  /\ workflow_runs' = [workflow_runs EXCEPT ![r] = new]
           /\ workflows' = update_workflow_last_run(old, new, workflows)
  ELSE UNCHANGED storage

\* one addLog call on run r; the trigger sees no change of status
WriteLog(r, entry, readOk, writeOk) ==
  /\ workflow_runs' =
       [workflow_runs EXCEPT ![r].logs = addLog(@, entry, readOk, writeOk)]
  /\ UNCHANGED workflows

(* --------------------------- the job queue ---------------------------- *)
\* a position counted from zero
ApiJob_zeroBased(id, workflow, runId, q) ==
  [id |-> id, workflowId |-> workflow.id, workflow |-> workflow,
   runId |-> runId, status |-> "queued", source |-> NoValue,
   position |-> Len(q)]

\* the job object the execute-now handler builds (lines 232-241)
ApiJob(id, workflow, runId, q) ==
  [id |-> id, workflowId |-> workflow.id, workflow |-> workflow,
   runId |-> runId, status |-> "queued", source |-> NoValue,
   position |-> Len(q) + 1]

\* unshift() where the code has push()
queueWorkflowExecution_unshift(workflowId, q, id) ==
  <<[id |-> id, workflowId |-> workflowId, workflow |-> Undefined,
     runId |-> NoRun, status |-> "queued", source |-> "scheduler",
     position |-> Len(q) + 1]>> \o q

\* scheduler.js queueWorkflowExecution: the queue after the push
queueWorkflowExecution(workflowId, q, id) ==
  Append(q, [id |-> id, workflowId |-> workflowId, workflow |-> Undefined,
             runId |-> NoRun, status |-> "queued", source |-> "scheduler",
             position |-> Len(q) + 1])

\* where executeWorkflow stands when its loop reaches index i: past the
\* end it returns; on a null element `node.label` throws out of the loop
EnterNode(nodes, i) ==
  IF i > Len(nodes) THEN "markCompleted"
  ELSE IF nodes[i] = NullNode THEN "markFailed"
  ELSE "node"

\* a catch block that pushes nothing
pushResult_skipFailed(results, node, out) ==
  IF out.threw THEN results ELSE Append(results, NodeResult(node, out))

\* the try/catch around one node (lines 478-525): both branches push a
\* NodeResult
pushResult(results, node, out) == Append(results, NodeResult(node, out))

\* a node's failure that leaves the loop
AfterNode_halt(nodes, i, res) ==
  IF res.success THEN EnterNode(nodes, i + 1) ELSE "markFailed"

\* an error handler whose 'Stop Workflow' ends the loop
AfterNode_stop(nodes, i, res) ==
  IF res.subtype = "error-handler"
     /\ res.result.result[1].action = "Stop Workflow"
  THEN "markCompleted"
  ELSE EnterNode(nodes, i + 1)

\* where executeWorkflow stands after the iteration of index i: the catch
\* block of the node has swallowed its failure, the loop goes on
AfterNode(nodes, i, res) == EnterNode(nodes, i + 1)

\* `since` and `wake` are the times a delay node started and its timer
\* is set to, while the call sleeps in executeDelay
Frame(pc, i, results, error) ==
  [pc |-> pc, i |-> i, results |-> results, error |-> error,
   since |-> 0, wake |-> 0]

\* pop() where the code has shift()
Shift_pop(q) == [job |-> q[Len(q)], rest |-> SubSeq(q, 1, Len(q) - 1)]

\* jobQueue.shift() on a queue that is not empty: the job it returns and
\* the queue it leaves
Shift(q) == [job |-> Head(q), rest |-> Tail(q)]

\* processJobQueue from its entry to its first await, on queue q.
\* `job.workflow.name` (line 328) is read before the try block: for a job
\* without a workflow the call rejects there, and nothing handles the
\* rejection: the runtime then ends the process (--unhandled-rejections=throw,
\* the default) or only warns, by the mode it was started in.
processJobQueue(q) ==
  IF Len(q) = 0
  THEN /\ jobQueue' = q
       /\ UNCHANGED <<executingJobs, procs, dequeued, escaped, halted>>
  ELSE LET job == [Shift(q).job EXCEPT !.status = "executing"] IN
       /\ jobQueue' = Shift(q).rest
       /\ executingJobs' = Put(executingJobs, job.id, job)
       /\ dequeued' = Append(dequeued, job.id)
       /\ IF job.workflow = Undefined
          THEN /\ escaped' = escaped \cup {job.id}
               /\ halted' \in BOOLEAN
               /\ UNCHANGED procs
          ELSE /\ procs' = Put(procs, job.id, Frame("started", 1, <<>>, NoMessage))
               /\ UNCHANGED <<escaped, halted>>

(* ------------------- POST /api/workflows/:id/execute ------------------ *)
\* a handler that goes on to queue the job when the insert of the run
\* record failed
Accepted_orphan(found, insertOk) == found

\* the two early returns of the handler: `if (error || !workflow)` and
\* `if (runError)`
Accepted(found, insertOk) == found /\ insertOk

\* the whole handler: the fetch of the workflow, the insert of the run
\* record, the push, the reply, and the processJobQueue call up to its
\* first await.  A failed fetch or an unknown id answers 404, a failed
\* insert answers 500, and neither touches the queue.
Execute(w) ==
  /\ ~halted
  /\ \E fetchOk \in StorageOk, insertOk \in StorageOk :
       LET found == fetchOk /\ w \in DOMAIN workflows
           cost  == Cost(fetchOk) + (IF found THEN Cost(insertOk) ELSE 0)
           workflow == [id |-> w, nodes |-> workflows[w].nodes,
                        connections |-> workflows[w].connections]
           job == ApiJob(nextId, workflow, nextId, jobQueue)
       IN
       /\ ~found => insertOk
       /\ faults + cost <= MaxFaults
       /\ faults' = faults + cost
       /\ response' = IF ~found THEN NotFound
                      ELSE IF ~insertOk THEN RunNotCreated
                      ELSE Queued(job)
       /\ IF Accepted(found, insertOk)
          THEN /\ Cardinality(DOMAIN workflow_runs) < MaxRuns
               /\ workflow_runs' =
                    Put(workflow_runs, nextId,
                        [workflow_id |-> workflow.id, status |-> "running",
                         logs |-> <<>>, completed_at |-> NullTime])
               /\ enqueued' = Append(enqueued, job.id)
               /\ nextId' = nextId + 1
               /\ processJobQueue(Append(jobQueue, job))
          ELSE UNCHANGED <<jobQueue, executingJobs, workflow_runs, procs,
                           nextId, halted, history>>
  /\ UNCHANGED editor
  /\ UNCHANGED <<executionResults, workflows, timers, sweep, now>>

\* setTimeout(processJobQueue, 1000) fires
TimerFire ==
  /\ ~halted
  /\ timers > 0
  /\ timers' = timers - 1
  /\ processJobQueue(jobQueue)
  /\ UNCHANGED editor
  /\ UNCHANGED <<executionResults, storage, sweep, now, faults,
                 nextId, response, enqueued>>

(* ------------------ processJobQueue / executeWorkflow ----------------- *)
Job(j)   == executingJobs[j]

\* the nodes read from the table at each step instead of the job's copy
Nodes_live(j) ==
  IF Job(j).workflowId \in DOMAIN workflows
  THEN workflows[Job(j).workflowId].nodes
  ELSE <<>>

\* a walk that keeps to the nodes the connections of the workflow touch
Nodes_connected(j) ==
  LET workflow == Job(j).workflow
      Touched(node) ==
        \E i \in 1..Len(workflow.connections) :
          node.id \in {workflow.connections[i].source,
                       workflow.connections[i].target}
  IN  IF workflow.connections = <<>> THEN workflow.nodes
      ELSE SelectSeq(workflow.nodes, Touched)

\* executeWorkflow's `nodes`: the array of job.workflow, the row the
\* handler fetched
Nodes(j) == Job(j).workflow.nodes


\* the outcomes of the two storage calls of one addLog
LogCall(r, entry) ==
  \E readOk \in StorageOk, writeOk \in StorageOk :
    /\ faults + Cost(readOk) + Cost(writeOk) <= MaxFaults
    /\ faults' = faults + Cost(readOk) + Cost(writeOk)
    /\ WriteLog(r, entry, readOk, writeOk)

\* addLog('info', 'Started workflow execution'), then executeWorkflow up to
\* its first await
LogStarted(j) ==
  /\ j \in DOMAIN procs /\ ~halted /\ procs[j].pc = "started"
  /\ LogCall(Job(j).runId, LogEntry("info", "Started workflow execution", 0))
  /\ LET pc == EnterNode(Nodes(j), 1) IN
     procs' = [procs EXCEPT ![j] =
                 Frame(pc, 1, <<>>,
                       IF pc = "markFailed" THEN NullNodeError
                       ELSE NoMessage)]
  /\ UNCHANGED editor
  /\ UNCHANGED <<jobQueue, executingJobs, executionResults, timers,
                 sweep, now, nextId, halted, response, history>>

\* the log entries of one loop iteration of executeWorkflow: the start
\* entry, the executor's own entry when the switch calls an executor, and
\* the entry of the outcome
NodeEntries(node, res) ==
  <<LogEntry("info", "Starting execution of node", node.id)>>
  \o (IF HasExecutor(node)
      THEN <<LogEntry("info", "Executing " \o node.type, node.id)>>
      ELSE <<>>)
  \o <<IF res.success
       THEN LogEntry("info", "Node completed successfully", node.id)
       ELSE LogEntry("error", "Node failed", node.id)>>

\* a sequence of addLog calls on one stored log, each with the outcomes
\* of its read and of its write
RECURSIVE addLogs(_, _, _, _)
addLogs(logs, entries, readOks, writeOks) ==
  IF entries = <<>> THEN logs
  ELSE addLogs(addLog(logs, Head(entries), Head(readOks), Head(writeOks)),
               Tail(entries), Tail(readOks), Tail(writeOks))

Failures(oks) == Cardinality({x \in DOMAIN oks : ~oks[x]})

IsDelay(node) == node.type = "logic" /\ node.subtype = "delay"

\* one loop iteration of executeWorkflow: the start entry, the executor of
\* the node (its log entry, then the connector or handler), the push of
\* the NodeResult, the log entry of the outcome, and the move to the next
\* node
NodeExec(j) ==
  /\ j \in DOMAIN procs /\ ~halted /\ procs[j].pc = "node"
  /\ ~IsDelay(Nodes(j)[procs[j].i])
  /\ LET i    == procs[j].i
         node == Nodes(j)[i]
     IN  \E ext \in Outcomes(node) :
           LET out     == Dispatch(node, ext)
               res     == NodeResult(node, out)
               entries == NodeEntries(node, res)
               pc      == AfterNode(Nodes(j), i, res)
           IN  \E readOks  \in [1..Len(entries) -> StorageOk],
                  writeOks \in [1..Len(entries) -> StorageOk] :
                 /\ faults + Failures(readOks) + Failures(writeOks) <= MaxFaults
                 /\ faults' = faults + Failures(readOks) + Failures(writeOks)
                 /\ workflow_runs' =
                      [workflow_runs EXCEPT ![Job(j).runId].logs =
                         addLogs(@, entries, readOks, writeOks)]
                 /\ procs' = [procs EXCEPT ![j] =
                      Frame(pc, i + 1, pushResult(procs[j].results, node, out),
                            IF pc = "markFailed" THEN NullNodeError
                            ELSE NoMessage)]
  /\ UNCHANGED editor
  /\ UNCHANGED <<jobQueue, executingJobs, executionResults, workflows, timers,
                 sweep, now, nextId, halted, response, history>>

\* a sequence of addLog calls on run r, each storage call of which may
\* fail
LogCalls(r, entries) ==
  \E readOks  \in [1..Len(entries) -> StorageOk],
     writeOks \in [1..Len(entries) -> StorageOk] :
    /\ faults + Failures(readOks) + Failures(writeOks) <= MaxFaults
    /\ faults' = faults + Failures(readOks) + Failures(writeOks)
    /\ workflow_runs' =
         [workflow_runs EXCEPT ![r].logs =
            addLogs(@, entries, readOks, writeOks)]

\* the loop iteration of a delay node, up to the timer of executeDelay:
\* the start entry, the entry of executeLogicNode, and the timer set
DelayStart(j) ==
  /\ j \in DOMAIN procs /\ ~halted /\ procs[j].pc = "node"
  /\ IsDelay(Nodes(j)[procs[j].i])
  /\ LET node == Nodes(j)[procs[j].i]
         res  == NodeResult(node, executeLogicNode(node))
     IN  /\ LogCalls(Job(j).runId, SubSeq(NodeEntries(node, res), 1, 2))
         /\ procs' = [procs EXCEPT
                        ![j].pc = "sleeping",
                        ![j].since = now,
                        ![j].wake = now + milliseconds(node.config)]
  /\ UNCHANGED editor
  /\ UNCHANGED <<jobQueue, executingJobs, executionResults, workflows, timers,
                 sweep, now, nextId, halted, response, history>>

\* the timer of executeDelay has fired: the rest of the loop iteration
DelayDone(j) ==
  /\ j \in DOMAIN procs /\ ~halted /\ procs[j].pc = "sleeping"
  /\ now >= procs[j].wake
  /\ LET i    == procs[j].i
         node == Nodes(j)[i]
         out  == executeLogicNode(node)
         res  == NodeResult(node, out)
         pc   == AfterNode(Nodes(j), i, res)
     IN  /\ LogCalls(Job(j).runId, SubSeq(NodeEntries(node, res), 3, 3))
         /\ procs' = [procs EXCEPT ![j] =
              Frame(pc, i + 1, pushResult(procs[j].results, node, out),
                    IF pc = "markFailed" THEN NullNodeError ELSE NoMessage)]
  /\ UNCHANGED editor
  /\ UNCHANGED <<jobQueue, executingJobs, executionResults, workflows, timers,
                 sweep, now, nextId, halted, response, history>>

\* update({status: 'completed'}) after executeWorkflow returned
MarkCompleted(j) ==
  /\ j \in DOMAIN procs /\ ~halted /\ procs[j].pc = "markCompleted"
  /\ \E ok \in StorageOk :
       /\ faults' = faults + Cost(ok)
       /\ UpdateStatus(Job(j).runId, "completed", ok)
  /\ procs' = [procs EXCEPT ![j].pc = "logCompleted"]
  /\ UNCHANGED editor
  /\ UNCHANGED <<jobQueue, executingJobs, executionResults, timers,
                 sweep, now, nextId, halted, response, history>>

\* update({status: 'failed'}) in the catch block
MarkFailed(j) ==
  /\ j \in DOMAIN procs /\ ~halted /\ procs[j].pc = "markFailed"
  /\ \E ok \in StorageOk :
       /\ faults' = faults + Cost(ok)
       /\ UpdateStatus(Job(j).runId, "failed", ok)
  /\ procs' = [procs EXCEPT ![j].pc = "logFailed"]
  /\ UNCHANGED editor
  /\ UNCHANGED <<jobQueue, executingJobs, executionResults, timers,
                 sweep, now, nextId, halted, response, history>>

Result(job, status, results, error) ==
  [jobId |-> job.id, runId |-> job.runId, workflowId |-> job.workflowId,
   status |-> status, results |-> results, error |-> error,
   success |-> (status = "completed")]

\* the end of processJobQueue: the last log entry, executingJobs.delete,
\* executionResults.set and the timer for the next job
Finish(j, status, entry) ==
  /\ LogCall(Job(j).runId, entry)
  /\ executingJobs' = Drop(executingJobs, j)
  /\ executionResults' =
       Put(executionResults, j,
           Result(Job(j), status,
                  IF status = "completed" THEN procs[j].results ELSE <<>>,
                  procs[j].error))
  /\ timers' = timers + (IF Len(jobQueue) > 0 THEN 1 ELSE 0)
  /\ procs' = Drop(procs, j)
  /\ UNCHANGED editor
  /\ UNCHANGED <<jobQueue, sweep, now, nextId, halted, response,
                 history>>

\* an addLog that lets its error out, into the catch block of processJobQueue
LogCompleted_rethrow(j) ==
  /\ j \in DOMAIN procs /\ ~halted /\ procs[j].pc = "logCompleted"
  /\ procs' = [procs EXCEPT ![j].pc = "markFailed",
                            ![j].error = <<"Error", "adding", "log",
                                           "entry">>]
  /\ UNCHANGED editor
  /\ UNCHANGED <<jobQueue, executingJobs, executionResults, storage, timers,
                 sweep, now, faults, nextId, halted, response, history>>

LogCompleted(j) ==
  /\ j \in DOMAIN procs /\ ~halted /\ procs[j].pc = "logCompleted"
  /\ Finish(j, "completed",
            LogEntry("info", "Workflow execution completed successfully", 0))

LogFailed(j) ==
  /\ j \in DOMAIN procs /\ ~halted /\ procs[j].pc = "logFailed"
  /\ Finish(j, "failed", LogEntry("error", "Workflow execution failed", 0))

(* --------------------- GET /api/jobs/:jobId/status -------------------- *)
\* jobQueue.find(job => job.id === jobId), as an index; 0 when not found
RECURSIVE findJob(_, _, _)
findJob(q, jobId, i) ==
  IF i > Len(q) THEN 0
  ELSE IF q[i].id = jobId THEN i
  ELSE findJob(q, jobId, i + 1)

Ok(body) == [code |-> 200, body |-> body]

JobNotFound == [code |-> 404, body |-> [error |-> "Job not found"]]

QueuedReply(i) ==
  Ok([status |-> jobQueue[i].status, queuePosition |-> i,
      queueLength |-> Len(jobQueue)])

ExecutingReply(jobId) ==
  Ok([status |-> executingJobs[jobId].status,
      message |-> "Workflow is currently executing"])

\* a reply that adds the present length of the queue to the result
ResultReply_live(jobId) ==
  Ok([result |-> executionResults[jobId], queueLength |-> Len(jobQueue)])

ResultReply(jobId) == Ok(executionResults[jobId])

\* a lookup that does not consult executingJobs
jobStatus_noExecuting(jobId) ==
  IF findJob(jobQueue, jobId, 1) > 0
  THEN QueuedReply(findJob(jobQueue, jobId, 1))
  ELSE IF jobId \in DOMAIN executionResults THEN ResultReply(jobId)
  ELSE JobNotFound

\* the handler: the queue first, then executingJobs, then executionResults
jobStatus(jobId) ==
  IF findJob(jobQueue, jobId, 1) > 0
  THEN QueuedReply(findJob(jobQueue, jobId, 1))
  ELSE IF jobId \in DOMAIN executingJobs THEN ExecutingReply(jobId)
  ELSE IF jobId \in DOMAIN executionResults THEN ResultReply(jobId)
  ELSE JobNotFound

(* ------------------- GET /api/workflows/:id/status -------------------- *)
\* req.params.jobId in a route whose one parameter is :id: undefined, the
\* id of no job
NoJobId == 0

\* the handler: it takes jobId from req.params, looks in the queue and
\* then in executionResults
workflowStatus(id) ==
  LET jobId == NoJobId IN
  IF findJob(jobQueue, jobId, 1) > 0
  THEN QueuedReply(findJob(jobQueue, jobId, 1))
  ELSE IF jobId \in DOMAIN executionResults THEN ResultReply(jobId)
  ELSE JobNotFound

(* ----------------------------- scheduler ------------------------------ *)
\* a fetch without the filter on `enabled`
RECURSIVE EnabledRows_all(_, _)
EnabledRows_all(wfs, ids) ==
  IF ids = {} THEN <<>>
  ELSE LET w == CHOOSE x \in ids : \A y \in ids : x <= y IN
       <<wfs[w]>> \o EnabledRows_all(wfs, ids \ {w})

\* the rows of .from('workflows').select('*').eq('enabled', true)
RECURSIVE EnabledRows(_, _)
EnabledRows(wfs, ids) ==
  IF ids = {} THEN <<>>
  ELSE LET w == CHOOSE x \in ids : \A y \in ids : x <= y IN
       (IF wfs[w].enabled THEN <<wfs[w]>> ELSE <<>>)
         \o EnabledRows(wfs, ids \ {w})

\* the loop of checkScheduledWorkflows over the fetched rows: the queue
\* after its pushes.  A TypeError of the node scan ends the sweep in its
\* catch block.
RECURSIVE checkRows(_, _, _, _, _)
checkRows(rows, i, q, id, t) ==
  IF i > Len(rows) THEN q
  ELSE LET workflow == rows[i]
           k == findSchedule(workflow.nodes, 1)
       IN  IF k < 0 THEN q
           ELSE IF k > 0 /\ shouldRunWorkflow(workflow, t)
           THEN checkRows(rows, i + 1,
                          queueWorkflowExecution(workflow.id, q, id), id + 1, t)
           ELSE checkRows(rows, i + 1, q, id, t)

\* setInterval(checkScheduledWorkflows, 60 * 1000) fires
Tick ==
  /\ ~halted
  /\ now < Epoch0 + MaxTicks * OneMinute
  /\ sweep = "idle"
  /\ now' = now + OneMinute
  /\ sweep' = "due"
  /\ UNCHANGED editor
  /\ UNCHANGED <<jobQueue, executingJobs, executionResults, storage, procs,
                 timers, faults, nextId, halted, response, history>>

\* checkScheduledWorkflows: the fetch of the enabled workflows, then the
\* loop over them; a failed fetch ends the sweep
Sweep ==
  /\ ~halted
  /\ sweep = "due"
  /\ \E ok \in StorageOk :
       LET rows == EnabledRows(workflows, DOMAIN workflows)
           q == IF ok THEN checkRows(rows, 1, jobQueue, nextId, now)
                ELSE jobQueue
           n == Len(q) - Len(jobQueue)
       IN  /\ faults' = faults + Cost(ok)
           /\ jobQueue' = q
           /\ nextId' = nextId + n
           /\ enqueued' = enqueued \o [x \in 1..n |-> nextId + x - 1]
  /\ sweep' = "idle"
  /\ UNCHANGED editor
  /\ UNCHANGED <<executingJobs, executionResults, storage, procs,
                 timers, now, halted, response, dequeued, escaped>>

(* --------------------------- specification ---------------------------- *)
Next ==
  \/ \E w \in WorkflowIds \cup {UnknownId} : Execute(w)
  \/ TimerFire
  \/ \E j \in DOMAIN procs : LogStarted(j)
  \/ \E j \in DOMAIN procs : NodeExec(j)
  \/ \E j \in DOMAIN procs : MarkCompleted(j)
  \/ \E j \in DOMAIN procs : LogCompleted(j)
  \/ \E j \in DOMAIN procs : MarkFailed(j)
  \/ \E j \in DOMAIN procs : LogFailed(j)
  \/ Tick
  \/ Sweep

Spec == Init /\ [][Next]_vars

(* ----------------------- runs of one node of any kind ------------------ *)
Urls       == {NoValue, "http://x"}
Channels   == {NoValue, "#general"}
Messages   == {NoValue, "hi"}
Operations == {NoValue, "SELECT"}
Tables     == {NoValue, "users"}

ActionInputs ==
  {Node(5, "action", "http", Config(u, NoValue, NoValue, NoValue)) :
     u \in Urls}
  \cup {Node(5, "action", "slack", Config(NoValue, c, m, NoValue)) :
          c \in Channels, m \in Messages}
  \cup {Node(5, "action", "database", DbConfig(o, t)) :
          o \in Operations, t \in Tables}

Operators == {"equals", "not_equals", "greater_than", "less_than",
              "contains", "starts_with", "ends_with", "bogus_operator",
              NoValue}

Operands == {Num(5), Num(3), Str(<<"5">>), Str(<<"3">>),
             Str(<<"a", "b", "c">>), Str(<<"b", "c">>), Undef}

Durations == {NoDuration, 1, 2}
Units     == {NoValue, "seconds", "minutes", "hours"}

DelayConfigs == {DelayConfig(d, u) : d \in Durations, u \in Units}

ErrorActions ==
  {NoValue, "Log Error", "Send Notification", "Retry", "Stop Workflow",
   "bogus_action"}

LogicInputs ==
  {Node(5, "logic", "conditional", ConditionalConfig(a, op, b)) :
     a \in Operands, op \in Operators, b \in Operands}
  \cup {Node(5, "logic", "delay", c) : c \in DelayConfigs}
  \cup {Node(5, "logic", "transform", TransformConfig(t)) :
          t \in {NoValue, "JSON Parse"}}
  \cup {Node(5, "logic", "error-handler", ErrorHandlerConfig(a, m, n)) :
          a \in ErrorActions, m \in {NoValue, "oops"}, n \in {NoCount, 3}}

\* the times to which the clock may pass while a run sleeps: one second
\* short of each delay counted from the start of the server, and each
\* delay
Instants ==
  {Epoch0 + milliseconds(c) - e : c \in DelayConfigs, e \in {0, 1}}

\* time passes while a run sleeps in executeDelay
Pass ==
  /\ ~halted
  /\ \E j \in DOMAIN procs : procs[j].pc = "sleeping"
  /\ \E t \in Instants : t > now /\ now' = t
  /\ UNCHANGED editor
  /\ UNCHANGED <<jobQueue, executingJobs, executionResults, storage, procs,
                 timers, sweep, faults, nextId, halted, response, history>>

\* one stored workflow: a node of any kind and configuration, then a
\* slack node; the storage does not fail
InitLogic ==
  /\ workflows \in
       {[w \in {1} |->
           [id |-> 1, enabled |-> FALSE, nodes |-> <<n, SlackNode>>,
            connections |-> <<>>, last_run_at |-> NullTime]] :
        n \in ActionInputs \cup LogicInputs}
  /\ jobQueue = <<>>
  /\ executingJobs = <<>>
  /\ executionResults = <<>>
  /\ workflow_runs = <<>>
  /\ procs = <<>>
  /\ timers = 0
  /\ sweep = "due"
  /\ now = Epoch0
  /\ faults = MaxFaults
  /\ nextId = 1
  /\ halted = FALSE
  /\ response = NoResponse
  /\ enqueued = <<>>
  /\ dequeued = <<>>
  /\ escaped = {}
  /\ editor = NoEditor

NextLogic ==
  \/ \E w \in DOMAIN workflows : Execute(w)
  \/ \E j \in DOMAIN procs : LogStarted(j)
  \/ \E j \in DOMAIN procs : NodeExec(j)
  \/ \E j \in DOMAIN procs : DelayStart(j)
  \/ \E j \in DOMAIN procs : DelayDone(j)
  \/ \E j \in DOMAIN procs : MarkCompleted(j)
  \/ \E j \in DOMAIN procs : LogCompleted(j)
  \/ Pass

SpecLogic == InitLogic /\ [][NextLogic]_vars

(* ------------------- the scheduler on any workflow table --------------- *)
\* the values of a schedule trigger's `interval`: the four labels of
\* parseInterval, a label it does not know, and none
Labels == {"Every 5 minutes", "Every hour", "Daily", "Weekly", "Monthly",
           NoValue}

\* seconds between a workflow's last run and the start of the server: one
\* short of each interval, and each interval
Ages == {FiveMinutes - 1, FiveMinutes, OneHour - 1, OneHour,
         OneDay - 1, OneDay, OneWeek - 1, OneWeek}

Scheduled(interval) ==
  Node(1, "trigger", "schedule", Config(NoValue, NoValue, NoValue, interval))

\* tables of two rows: the first enabled or not, with or without a
\* schedule trigger, of any interval and any last run; the second never
\* run, enabled or not
SweepTables ==
  {[w \in {1, 2} |->
      IF w = 1
      THEN [id |-> 1, enabled |-> e1, nodes |-> n, connections |-> <<>>,
            last_run_at |-> t]
      ELSE [id |-> 2, enabled |-> e2, nodes |-> <<ScheduleNode>>,
            connections |-> <<>>, last_run_at |-> NullTime]] :
     e1 \in BOOLEAN, e2 \in BOOLEAN,
     n \in {<<HttpNode>>} \cup {<<HttpNode, Scheduled(l)>> : l \in Labels},
     t \in {NullTime} \cup {Epoch0 - a : a \in Ages}}

InitSweep ==
  /\ workflows \in SweepTables
  /\ jobQueue = <<>>
  /\ executingJobs = <<>>
  /\ executionResults = <<>>
  /\ workflow_runs = <<>>
  /\ procs = <<>>
  /\ timers = 0
  /\ sweep = "due"
  /\ now = Epoch0
  /\ faults = 0
  /\ nextId = 1
  /\ halted = FALSE
  /\ response = NoResponse
  /\ enqueued = <<>>
  /\ dequeued = <<>>
  /\ escaped = {}
  /\ editor = NoEditor

NextSweep ==
  \/ Tick
  \/ Sweep

SpecSweep == InitSweep /\ [][NextSweep]_vars

(* --------------- two workflows of one node array, executed ------------- *)
\* node arrays: a conditional that is true or false, an error handler
\* that asks to stop, an http request, each before and after a slack node
WalkNodes ==
  {Node(5, "logic", "conditional",
        ConditionalConfig(Num(5), "equals", Num(5))),
   Node(5, "logic", "conditional",
        ConditionalConfig(Num(5), "equals", Num(3))),
   Node(5, "logic", "error-handler",
        ErrorHandlerConfig("Stop Workflow", "oops", 3)),
   Node(5, "action", "http", Config("http://x", NoValue, NoValue, NoValue))}

WalkArrays ==
  {<<n, SlackNode>> : n \in WalkNodes} \cup {<<SlackNode, n>> : n \in WalkNodes}

\* connection sets over the two nodes of such an array
ConnectionSets ==
  {<<>>, <<Connection(5, 4)>>, <<Connection(4, 5)>>, <<Connection(5, 5)>>}

\* the engine with a reliable storage and a table of two workflows that
\* have the same nodes and different connections
InitWalk ==
  /\ workflows \in
       {[w \in {1, 2} |->
           [id |-> w, enabled |-> FALSE, nodes |-> a,
            connections |-> c[w],
            last_run_at |-> NullTime]] :
        a \in WalkArrays,
        c \in {p \in ConnectionSets \X ConnectionSets : p[1] # p[2]}}
  /\ jobQueue = <<>>
  /\ executingJobs = <<>>
  /\ executionResults = <<>>
  /\ workflow_runs = <<>>
  /\ procs = <<>>
  /\ timers = 0
  /\ sweep = "idle"
  /\ now = Epoch0
  /\ faults = MaxFaults
  /\ nextId = 1
  /\ halted = FALSE
  /\ response = NoResponse
  /\ enqueued = <<>>
  /\ dequeued = <<>>
  /\ escaped = {}
  /\ editor = NoEditor

NextWalk ==
  \/ \E w \in WorkflowIds : Execute(w)
  \/ \E j \in DOMAIN procs : LogStarted(j)
  \/ \E j \in DOMAIN procs : NodeExec(j)
  \/ \E j \in DOMAIN procs : MarkCompleted(j)
  \/ \E j \in DOMAIN procs : LogCompleted(j)

SpecWalk == InitWalk /\ [][NextWalk]_vars

(* ------------------- edits of the workflow definitions ----------------- *)
\* the node arrays an edit stores
Edits == {<<SlackNode, HttpNode>>, <<NullNode>>}

\* the table after .update(fields).eq('id', id) of nodes and connections
UpdateRow(table, id, nodes, connections, ok) ==
  IF ok /\ id \in DOMAIN table
  THEN [table EXCEPT ![id].nodes = nodes, ![id].connections = connections]
  ELSE table

\* WorkflowContext updateWorkflow(id, {nodes}) on a workflow of the list:
\* addToHistory, the update of the row, the update of the list
updateWorkflow(id, nodes) ==
  /\ id \in DOMAIN editor.workflows
  /\ \E ok \in StorageOk :
       /\ faults' = faults + Cost(ok)
       /\ editor' = afterUpdate(editor, id, nodes, ok)
       /\ workflows' =
            UpdateRow(workflows, id, nodes,
                      editor.workflows[id].connections, ok)
  /\ UNCHANGED <<jobQueue, executingJobs, executionResults, workflow_runs,
                 procs, timers, sweep, now, nextId, halted, response,
                 history>>

\* WorkflowContext undoWorkflow(id): the row and the list get the last
\* state of `past`; the answer of the update is not looked at
undoWorkflow(id) ==
  /\ canUndo(editor, id)
  /\ \E ok \in StorageOk :
       LET hist     == editor.workflowHistory[id]
           previous == hist.past[Len(hist.past)]
       IN  /\ faults' = faults + Cost(ok)
           /\ workflows' = UpdateRow(workflows, id, previous.nodes,
                                     previous.connections, ok)
  /\ editor' = afterUndo(editor, id)
  /\ UNCHANGED <<jobQueue, executingJobs, executionResults, workflow_runs,
                 procs, timers, sweep, now, nextId, halted, response,
                 history>>

\* WorkflowContext redoWorkflow(id): the row and the list get the first
\* state of `future`
redoWorkflow(id) ==
  /\ canRedo(editor, id)
  /\ \E ok \in StorageOk :
       LET next == editor.workflowHistory[id].future[1] IN
       /\ faults' = faults + Cost(ok)
       /\ workflows' = UpdateRow(workflows, id, next.nodes,
                                 next.connections, ok)
  /\ editor' = afterRedo(editor, id)
  /\ UNCHANGED <<jobQueue, executingJobs, executionResults, workflow_runs,
                 procs, timers, sweep, now, nextId, halted, response,
                 history>>

\* WorkflowContext deleteWorkflow(id): the delete of the row, and of the
\* workflow's runs by ON DELETE CASCADE; then the workflow leaves the list
\* and its history is dropped
deleteWorkflow(id) ==
  /\ id \in DOMAIN workflows
  /\ \E ok \in StorageOk :
       /\ faults' = faults + Cost(ok)
       /\ IF ok
          THEN /\ workflows' = Drop(workflows, id)
               /\ workflow_runs' =
                    [r \in {x \in DOMAIN workflow_runs :
                              workflow_runs[x].workflow_id # id}
                       |-> workflow_runs[r]]
               /\ editor' =
                    [workflows |-> Drop(editor.workflows, id),
                     workflowHistory |-> Drop(editor.workflowHistory, id)]
          ELSE UNCHANGED <<storage, editor>>
  /\ UNCHANGED <<jobQueue, executingJobs, executionResults, procs, timers,
                 sweep, now, nextId, halted, response, history>>

\* the engine with a reliable storage, a table of one workflow that has
\* no schedule, and the scheduler at rest.  The queue is then empty
\* whenever a run ends, and no timer is set.  A definition is updated
\* once.
InitEdit ==
  /\ jobQueue = <<>>
  /\ executingJobs = <<>>
  /\ executionResults = <<>>
  /\ workflows = [w \in {2} |-> InitialWorkflows[w]]
  /\ workflow_runs = <<>>
  /\ procs = <<>>
  /\ timers = 0
  /\ sweep = "idle"
  /\ now = Epoch0
  /\ faults = MaxFaults
  /\ nextId = 1
  /\ halted = FALSE
  /\ response = NoResponse
  /\ enqueued = <<>>
  /\ dequeued = <<>>
  /\ escaped = {}
  /\ editor = fetchWorkflows(workflows)

NextEdit ==
  \/ \E w \in WorkflowIds \cup {UnknownId} : Execute(w)
  \/ \E j \in DOMAIN procs : LogStarted(j)
  \/ \E j \in DOMAIN procs : NodeExec(j)
  \/ \E j \in DOMAIN procs : MarkCompleted(j)
  \/ \E j \in DOMAIN procs : LogCompleted(j)
  \/ \E j \in DOMAIN procs : MarkFailed(j)
  \/ \E j \in DOMAIN procs : LogFailed(j)
  \/ \E w \in WorkflowIds, nodes \in Edits :
       /\ w \in DOMAIN workflows
       /\ workflows[w].nodes = InitialNodes(w)
       /\ updateWorkflow(w, nodes)
  \/ \E w \in WorkflowIds : deleteWorkflow(w)

SpecEdit == InitEdit /\ [][NextEdit]_vars

(* ------------------- the history of one workflow ---------------------- *)
\* the node arrays the updates store
HistoryEdits == {<<HttpNode, SlackNode>>, <<SlackNode, HttpNode>>}

\* the context with one workflow in its list, fetched from the table (no
\* history) or created in this session (createWorkflow has called
\* addToHistory); the engine is at rest and the storage reliable
InitHistory ==
  /\ workflows = [w \in {2} |-> InitialWorkflows[w]]
  /\ editor \in
       {fetchWorkflows(workflows),
        [fetchWorkflows(workflows) EXCEPT
           !.workflowHistory =
              addToHistory(<<>>, 2, Local(InitialWorkflows[2]))]}
  /\ jobQueue = <<>>
  /\ executingJobs = <<>>
  /\ executionResults = <<>>
  /\ workflow_runs = <<>>
  /\ procs = <<>>
  /\ timers = 0
  /\ sweep = "idle"
  /\ now = Epoch0
  /\ faults = MaxFaults
  /\ nextId = 1
  /\ halted = FALSE
  /\ response = NoResponse
  /\ enqueued = <<>>
  /\ dequeued = <<>>
  /\ escaped = {}

NextHistory ==
  \/ \E w \in WorkflowIds, nodes \in HistoryEdits : updateWorkflow(w, nodes)
  \/ \E w \in WorkflowIds : undoWorkflow(w)
  \/ \E w \in WorkflowIds : redoWorkflow(w)

SpecHistory == InitHistory /\ [][NextHistory]_vars

(* ------------------------------ claims -------------------------------- *)
QueueIds == [i \in 1..Len(jobQueue) |-> jobQueue[i].id]
Range(f) == {f[x] : x \in DOMAIN f}
Terminal == {"completed", "failed"}

\* jobs pushed by the execute-now handler have a run record, those of the
\* scheduler have none
ApiJobs       == {j \in Range(enqueued) : j \in DOMAIN workflow_runs}
SchedulerJobs == Range(enqueued) \ ApiJobs

HasTerminalResult(j) ==
  j \in DOMAIN executionResults /\ executionResults[j].status \in Terminal

\* nothing is left that would call processJobQueue or resume a run: no
\* call is suspended and no timer is pending.  Only a further execute-now
\* request could start processing again.
Quiescent == procs = <<>> /\ timers = 0

\* C1: at most one job is in the executing state, in every reachable
\* state of the engine.
C1_AtMostOneExecuting == Cardinality(DOMAIN executingJobs) <= 1

\* C2: jobs are dequeued in exactly the order they were pushed (the jobs
\* dequeued so far, followed by the queue, are the jobs pushed so far, in
\* push order), and a processJobQueue call that finds the queue empty
\* changes nothing.
C2_ServedInArrivalOrder ==
  /\ [](enqueued = dequeued \o QueueIds)
  /\ [][(TimerFire /\ jobQueue = <<>>)
          => UNCHANGED <<jobQueue, executingJobs, executionResults, storage,
                         procs, history, halted>>]_vars

\* three jobs were dequeued, two from requests and one from the scheduler,
\* and a timer is about to call processJobQueue on the empty queue
C2_Witness ==
  /\ Len(dequeued) >= 3 /\ jobQueue = <<>> /\ timers > 0 /\ ~halted
  /\ \E j \in Range(dequeued) : j \in SchedulerJobs

\* C3: every job pushed by an execute-now request reaches a terminal
\* result.  Checked on the states in which nothing is left to do: there,
\* without a further request, what has no result never gets one.
C3_ExecuteJobsFinish ==
  Quiescent => \A j \in ApiJobs : HasTerminalResult(j)

\* C4: every job pushed by the scheduler is dequeued and run to a terminal
\* status, also when no execute-now request follows the sweep.
C4_SchedulerJobsFinish ==
  Quiescent => \A j \in SchedulerJobs : HasTerminalResult(j)

\* C5: for every dequeued job, whatever its source, an exception raised
\* while it is processed is caught: no processJobQueue call rejects, and a
\* job whose call is over has left the executing set and has a result.
C5_ExceptionsCaught ==
  /\ escaped = {}
  /\ editor = NoEditor
  /\ \A j \in Range(dequeued) :
       j \notin DOMAIN procs =>
         j \notin DOMAIN executingJobs /\ HasTerminalResult(j)

\* C6: executeWorkflow returns one NodeResult per node of the array, the
\* i-th carrying the id of the i-th node, whatever nodes succeed or fail
\* (while the loop runs, one per node it has passed).
C6_OneResultPerNode ==
  \A j \in DOMAIN procs :
    LET f == procs[j] IN
    /\ f.pc = "node" => Len(f.results) = f.i - 1
    /\ f.pc \in {"markCompleted", "logCompleted"}
         => Len(f.results) = Len(Nodes(j))
    /\ \A k \in 1..Len(f.results) : f.results[k].nodeId = Nodes(j)[k].id

\* executeWorkflow has returned two results, a failure then a success
C6_Witness ==
  \E j \in DOMAIN procs :
    /\ procs[j].pc = "logCompleted"
    /\ Len(procs[j].results) = 2
    /\ ~procs[j].results[1].success /\ procs[j].results[2].success

\* C7: a node whose execution fails yields a NodeResult with success=false
\* and the error message (for a missing url, the message of the
\* validation), the loop goes on to the nodes after it, and the run takes
\* the failed path only for an exception raised outside a node's try
\* block (a null element of the array), never for the failure of a node.
C7_FailingNodeDoesNotHalt ==
  \A j \in DOMAIN procs :
    LET f == procs[j] IN
    /\ \A k \in 1..Len(f.results) :
         /\ ~f.results[k].success => f.results[k].error # NoMessage
         /\ Nodes(j)[k] = HttpNoUrl
              => /\ ~f.results[k].success
                 /\ f.results[k].error = UrlRequired
    /\ f.pc \in {"markFailed", "logFailed"}
         => f.i <= Len(Nodes(j)) /\ Nodes(j)[f.i] = NullNode
    /\ f.pc \in {"markCompleted", "logCompleted"}
         => f.i = Len(Nodes(j)) + 1 /\ Len(f.results) = Len(Nodes(j))

\* two jobs completed although their first node failed, one for its
\* missing url and one for a timeout, and the second node of each ran
C7_Witness ==
  \E a, b \in DOMAIN executionResults :
    /\ executionResults[a].status = "completed"
    /\ executionResults[b].status = "completed"
    /\ Len(executionResults[a].results) = 2
    /\ Len(executionResults[b].results) = 2
    /\ executionResults[a].results[1].error = UrlRequired
    /\ executionResults[b].results[1].error = HttpTimeout
    /\ executionResults[a].results[2].success
    /\ executionResults[b].results[2].success

RunOf(r) == {j \in DOMAIN procs : executingJobs[j].runId = r}

\* C8: the stored status of a run changes at most once: from running to
\* completed, written after executeWorkflow returned, or from running to
\* failed, written by the catch block; a terminal status is never
\* overwritten.
C8_StatusChangesOnce ==
  [][\A r \in DOMAIN workflow_runs :
       workflow_runs'[r].status # workflow_runs[r].status
         => /\ workflow_runs[r].status = "running"
            /\ workflow_runs'[r].status = "completed"
                 => \E j \in RunOf(r) : procs[j].pc = "markCompleted"
            /\ workflow_runs'[r].status = "failed"
                 => \E j \in RunOf(r) : procs[j].pc = "markFailed"]_vars

\* one run was stored completed and another failed
C8_Witness ==
  \E a, b \in DOMAIN workflow_runs :
    /\ workflow_runs[a].status = "completed"
    /\ workflow_runs[b].status = "failed"

\* C9: once the status of a run record is completed or failed, the record
\* is never written again.
C9_ImmutableOnceTerminal ==
  [][\A r \in DOMAIN workflow_runs :
       workflow_runs[r].status \in Terminal
         => workflow_runs'[r] = workflow_runs[r]]_vars

IsPrefix(s, t) == Len(s) <= Len(t) /\ SubSeq(t, 1, Len(s)) = s

\* C10: the stored log of a run is append-only: every stored log has the
\* log stored before it as a prefix, also when a read or a write of an
\* addLog call fails.
C10_LogAppendOnly ==
  [][\A r \in DOMAIN workflow_runs :
       IsPrefix(workflow_runs[r].logs, workflow_runs'[r].logs)]_vars

\* C11: every job in the queue, pushed by an execute-now request or by
\* the scheduler, carries a workflow snapshot and the id of an existing
\* run record.
C11_JobsCarrySnapshotAndRun ==
  \A i \in 1..Len(jobQueue) :
    /\ jobQueue[i].workflow # Undefined
    /\ jobQueue[i].runId \in DOMAIN workflow_runs

Requests == WorkflowIds \cup {UnknownId}

\* C12: every push, of a request or of the scheduler, puts one job at the
\* tail of the queue with status queued and position = the length of the
\* queue before the push + 1 (the k-th push of a step finds the k-1 jobs
\* pushed before it; a job pushed on the empty queue is shifted by the
\* processJobQueue call of the same handler), the reply carries that
\* position, and a request for a stored workflow is refused only when a
\* storage call failed, whatever the length of the queue.
C12_EnqueueAppends ==
  /\ [][\A k \in 1..(Len(enqueued') - Len(enqueued)) :
          LET id == enqueued'[Len(enqueued) + k]
              n  == Len(enqueued') - Len(enqueued)
              at == Len(jobQueue') - n + k
          IN  \/ /\ at >= 1
                 /\ jobQueue'[at].id = id
                 /\ jobQueue'[at].status = "queued"
                 /\ jobQueue'[at].position = Len(jobQueue) + k
                 /\ response' # response
                      => response' = Queued(jobQueue'[at])
              \/ /\ jobQueue = <<>> /\ n = 1 /\ jobQueue' = <<>>
                 /\ id \in DOMAIN executingJobs'
                 /\ executingJobs'[id].position = 1
                 /\ response' = Queued(executingJobs'[id])]_vars
  /\ [][\A w \in WorkflowIds :
          Execute(w) /\ faults' = faults => response'.code = 200]_vars

\* a job of a request and a job of the scheduler are in the queue, each
\* pushed when the queue held a job already
C12_Witness ==
  \E i, k \in 1..Len(jobQueue) :
    /\ jobQueue[i].source = "scheduler" /\ jobQueue[i].position >= 2
    /\ jobQueue[k].source = NoValue /\ jobQueue[k].position >= 2

\* C13: an execute-now request that fails, for a workflow that is not
\* found or a run record that cannot be created, answers 404 or 500 and
\* leaves the queue, the executing set and the results map as they were
\* (and stores no run record); only a request that queued its job
\* answers 200.
C13_FailedExecuteChangesNothing ==
  [][\A w \in Requests :
       Execute(w) =>
         /\ w \notin DOMAIN workflows => response'.code = 404
         /\ faults' > faults => response'.code \in {404, 500}
         /\ response'.code \in {200, 404, 500}
         /\ response'.code # 200
              => UNCHANGED <<jobQueue, executingJobs, executionResults,
                             workflow_runs, enqueued>>
         /\ response'.code = 200
              => Len(enqueued') = Len(enqueued) + 1]_vars

\* the insert of a run record failed while a job was queued, one was
\* executing and one had finished
C13_Witness ==
  /\ response = RunNotCreated
  /\ jobQueue # <<>> /\ executingJobs # <<>> /\ executionResults # <<>>

\* C14: while the server runs, the status lookup of a job id that an
\* execute-now request returned answers queued with the job's place in
\* the queue exactly when the job is in the queue, executing exactly when
\* a processJobQueue call is running it, and its terminal result exactly
\* when it has finished; the job is in exactly one of the three, so the
\* answer is never not-found.  An id that was never given to a job
\* answers not-found.
C14_StatusLookup ==
  ~halted =>
    /\ \A j \in ApiJobs :
         LET r == jobStatus(j)
             inQueue == j \in Range(QueueIds)
             running == j \in DOMAIN procs
             done    == j \in DOMAIN executionResults
         IN  /\ r.code = 200
             /\ (r.body.status = "queued") <=> inQueue
             /\ inQueue => QueueIds[r.body.queuePosition] = j
             /\ (r.body.status = "executing") <=> running
             /\ (r.body.status \in Terminal) <=> done
             /\ done => r.body = executionResults[j]
             /\ Cardinality({b \in {inQueue, running, done} : b}) = 1
             /\ ~(inQueue /\ running) /\ ~(inQueue /\ done)
             /\ ~(running /\ done)
    /\ \A j \in (0..(nextId + 1)) \ Range(enqueued) :
         jobStatus(j) = JobNotFound

\* one job of a request is executing while another waits in the queue
\* behind a job of the scheduler
C14_Witness ==
  /\ ~halted
  /\ \E a, b \in ApiJobs :
       /\ jobStatus(a).body.status = "executing"
       /\ jobStatus(b).body.status = "queued"
       /\ jobStatus(b).body.queuePosition = 2

\* C15: once a job has a terminal result, every lookup of its status
\* answers that same result, whatever is pushed, run or finished in
\* between: no step changes the answer.
C15_TerminalLookupStable ==
  [][\A j \in DOMAIN executionResults :
       /\ executionResults'[j] = executionResults[j]
       /\ jobStatus(j)' = jobStatus(j)]_vars

\* two jobs have finished and a third is in the queue
C15_Witness ==
  /\ \E a, b \in DOMAIN executionResults : a # b
  /\ jobQueue # <<>>

\* the interval of a label, in seconds, as the claim gives it
intervalFor(label) ==
  CASE label = "Every 5 minutes" -> 5 * 60
    [] label = "Every hour"      -> 60 * 60
    [] label = "Daily"           -> 24 * 60 * 60
    [] label = "Weekly"          -> 7 * 24 * 60 * 60
    [] OTHER                     -> 60 * 60

\* the times of the sweeps made so far, and the queued jobs of workflow w
SweepTimes ==
  {t \in {Epoch0 + k * 60 : k \in 0..MaxTicks} :
     t < now \/ (t = now /\ sweep = "idle")}
JobsFor(w) == {i \in 1..Len(jobQueue) : jobQueue[i].workflowId = w}
Triggers(row) ==
  {i \in 1..Len(row.nodes) : IsScheduleTrigger(row.nodes[i])}

C17_NeverRunAlwaysDue ==
  faults = 0 =>
    \A w \in DOMAIN workflows :
      (workflows[w].enabled /\ Triggers(workflows[w]) # {}
         /\ workflows[w].last_run_at = NullTime)
      => Cardinality(JobsFor(w)) = Cardinality(SweepTimes)

\* is the row due at time t, as the claim defines it (a workflow never
\* run counts from the epoch)
Due(row, t) ==
  \E i \in Triggers(row) :
    t - (IF row.last_run_at = NullTime THEN 0 ELSE row.last_run_at)
      >= intervalFor(row.nodes[i].config.interval)

\* C18: every job a sweep appends has source = scheduler and is of a
\* workflow that is enabled, has a schedule trigger and is due at the
\* time of the sweep; no queued job is of a disabled workflow or of one
\* without a schedule trigger.
C18_SchedulerJobsAreDue ==
  /\ [][Sweep =>
         \A i \in (Len(jobQueue) + 1)..Len(jobQueue') :
           LET job == jobQueue'[i] IN
           /\ job.source = "scheduler"
           /\ job.workflowId \in DOMAIN workflows
           /\ workflows[job.workflowId].enabled
           /\ Triggers(workflows[job.workflowId]) # {}
           /\ Due(workflows[job.workflowId], now)]_vars
  /\ [](\A w \in DOMAIN workflows :
          (~workflows[w].enabled \/ Triggers(workflows[w]) = {})
            => JobsFor(w) = {})

\* a sweep passed over a disabled workflow that has a schedule trigger
\* and is due, and queued the enabled one
C18_Witness ==
  /\ sweep = "idle" /\ faults = 0
  /\ ~workflows[1].enabled /\ Triggers(workflows[1]) # {}
  /\ Due(workflows[1], now)
  /\ Len(jobQueue) = 1 /\ jobQueue[1].workflowId = 2
  /\ jobQueue[1].source = "scheduler"

\* C19: a sweep only appends jobs at the tail of the queue: the queue
\* before it is a prefix of the queue after it, and the executing set,
\* the results, the run records and the running calls are untouched; a
\* sweep whose fetch fails appends nothing; and every sweep, failed or
\* not, leaves the server running and the timer armed, so that the next
\* period starts another sweep.
C19_SweepOnlyAppends ==
  /\ [][Sweep =>
         /\ IsPrefix(jobQueue, jobQueue')
         /\ UNCHANGED <<executingJobs, executionResults, storage, procs,
                        timers, dequeued, escaped>>
         /\ faults' > faults => jobQueue' = jobQueue
         /\ sweep' = "idle" /\ ~halted']_vars
  /\ []((sweep = "idle" /\ ~halted /\ now < Epoch0 + MaxTicks * 60)
          => ENABLED Tick)

\* the fetch of the first sweep failed and nothing was queued; the timer
\* has fired again
C19_Witness ==
  /\ now = Epoch0 + 60 /\ sweep = "due"
  /\ faults = 1 /\ response = NoResponse /\ enqueued = <<>>

\* C20: an http node whose request ends with a non-2xx response (the
\* connector returns success = false) yields a NodeResult with
\* success = false and an error message.
C20_Non2xxIsFailure ==
  \A j \in DOMAIN procs :
    \A k \in 1..Len(procs[j].results) :
      LET r == procs[j].results[k] IN
      (r.type = "action" /\ r.subtype = "http" /\ ~r.result.success
         /\ r.called)
        => ~r.success /\ r.error # NoMessage

\* the number of addLog calls of a run over the given nodes: the first
\* and the last of processJobQueue, and those of each node
RECURSIVE EntriesOf(_)
EntriesOf(nodes) ==
  IF nodes = <<>> THEN 2
  ELSE (IF HasExecutor(Head(nodes)) THEN 3 ELSE 2) + EntriesOf(Tail(nodes))

\* C21: a failed read or write of the run record while a job is
\* processed aborts the run, and the job's result is failed: a job whose
\* result is completed has had every write of its record succeed, so the
\* record is stored completed and its log holds every entry of the run.
C21_StorageFailureAborts ==
  \A j \in DOMAIN executionResults :
    LET res == executionResults[j] IN
    (res.status = "completed" /\ res.runId \in DOMAIN workflow_runs)
      => /\ workflow_runs[res.runId].status = "completed"
         /\ Len(workflow_runs[res.runId].logs)
              = EntriesOf(workflows[res.workflowId].nodes)

Contains(msg, word) == \E i \in DOMAIN msg : msg[i] = word

\* does the configuration of an action node lack a key its connector
\* requires
MissingKey(node) ==
  CASE node.subtype = "http"     -> node.config.url = NoValue
    [] node.subtype = "slack"    ->
         node.config.channel = NoValue \/ node.config.message = NoValue
    [] node.subtype = "database" ->
         node.config.operation = NoValue \/ node.config.table = NoValue
    [] OTHER                     -> FALSE

\* C22: an http, slack or database node whose configuration lacks a
\* required key (url; channel or message; operation or table) fails when
\* it is executed, with a message that contains the word 'required', and
\* without its connector making its external call.
C22_ConnectorsValidate ==
  \A j \in DOMAIN procs :
    \A k \in 1..Len(procs[j].results) :
      LET node == Nodes(j)[k]
          r    == procs[j].results[k]
      IN  (node.type = "action" /\ MissingKey(node))
            => /\ ~r.success
               /\ Contains(r.error, "required")
               /\ ~r.called

\* a database node with an operation and no table has failed, and the
\* run has gone on to the next node
C22_Witness ==
  \E j \in DOMAIN procs :
    /\ Len(procs[j].results) = 2
    /\ Nodes(j)[1].subtype = "database"
    /\ Nodes(j)[1].config.operation # NoValue
    /\ Nodes(j)[1].config.table = NoValue
    /\ procs[j].results[1].error = DatabaseRequired

\* does the configuration of a logic node lack a key its handler needs
MissingLogicKey(node) ==
  CASE node.subtype = "conditional" ->
         \/ node.config.operator = NoValue
         \/ node.config.operand1 = Undef
         \/ node.config.operand2 = Undef
    [] node.subtype = "delay"         -> node.config.duration = NoDuration
    [] node.subtype = "transform"     ->
         node.config.transformationType = NoValue
    [] node.subtype = "error-handler" -> node.config.action = NoValue
    [] OTHER                          -> FALSE

\* C23: a conditional, delay, error-handler or transform node whose
\* configuration lacks a key the handler needs fails with a descriptive
\* error: its NodeResult has success = false and a message.
C23_LogicHandlersValidate ==
  \A j \in DOMAIN procs :
    \A k \in 1..Len(procs[j].results) :
      LET node == Nodes(j)[k]
          r    == procs[j].results[k]
      IN  (node.type = "logic" /\ MissingLogicKey(node))
            => ~r.success /\ r.error # NoMessage

\* the evaluation the claim describes: the numeric comparisons on the
\* parsed operands, the others on the strings of both operands
Reference(operand1, operator, operand2) ==
  CASE operator = "equals"       -> String(operand1) = String(operand2)
    [] operator = "not_equals"   -> String(operand1) # String(operand2)
    [] operator = "greater_than" ->
         greaterThan(parseFloat(operand1), parseFloat(operand2))
    [] operator = "less_than"    ->
         greaterThan(parseFloat(operand2), parseFloat(operand1))
    [] operator = "contains"     ->
         includes(String(operand1), String(operand2))
    [] operator = "starts_with"  ->
         startsWith(String(operand1), String(operand2))
    [] operator = "ends_with"    ->
         endsWith(String(operand1), String(operand2))
    [] OTHER                     -> FALSE

\* C24: for all operands and operators the conditional handler does not
\* fail and its result is that of the reference evaluation.
C24_ConditionalMatchesReference ==
  \A j \in DOMAIN procs :
    \A k \in 1..Len(procs[j].results) :
      LET node == Nodes(j)[k]
          r    == procs[j].results[k]
      IN  (node.type = "logic" /\ node.subtype = "conditional")
            => /\ r.success
               /\ r.result.result =
                    <<Reference(node.config.operand1, node.config.operator,
                                node.config.operand2)>>

\* the seconds in one unit of a delay, as the claim gives them
UnitSeconds(unit) ==
  CASE unit = "minutes" -> 60
    [] unit = "hours"   -> 60 * 60
    [] OTHER            -> 1

\* C25: a run that executes a delay node of duration d and unit u leaves
\* the delay, for its next node, only when d seconds, minutes or hours
\* (by u; seconds when u is absent) have passed since the node started.
C25_DelayHoldsRun ==
  [][\A j \in DOMAIN procs :
       (procs[j].pc = "sleeping" /\ j \in DOMAIN procs'
          /\ procs'[j].pc # "sleeping")
       => LET c == Nodes(j)[procs[j].i].config IN
          c.duration # NoDuration
            => now' >= procs[j].since + c.duration * UnitSeconds(c.unit)]_vars

\* a run is at the node after a delay of one minute, a minute after the
\* server started
C25_Witness ==
  \E j \in DOMAIN procs :
    /\ procs[j].i = 2 /\ procs[j].pc = "node"
    /\ Nodes(j)[1] = Node(5, "logic", "delay", DelayConfig(1, "minutes"))
    /\ now = Epoch0 + 60

\* the jobs that wait or execute
LiveJobs == Range(jobQueue) \cup Range(executingJobs)

\* nodeId, type and subtype of the first Len(results) nodes of an array
Executed(nodes, results) ==
  /\ Len(results) <= Len(nodes)
  /\ \A k \in 1..Len(results) :
       /\ results[k].nodeId = nodes[k].id
       /\ results[k].type = nodes[k].type
       /\ results[k].subtype = nodes[k].subtype

\* C26: the workflow a job of the execute-now handler carries is the row
\* of the table at the time of the request, it stays what it is while the
\* job waits and executes, whatever update or deletion the table sees, and
\* the nodes a run has executed are, in order, the first nodes of that
\* array; a completed run has executed all of them.
C26_RunExecutesSnapshot ==
  [][/\ \A job \in LiveJobs' :
          IF \E old \in LiveJobs : old.id = job.id
          THEN \E old \in LiveJobs :
                 old.id = job.id /\ old.workflow = job.workflow
          ELSE job.source = NoValue
                 => job.workflow.nodes = workflows[job.workflowId].nodes
     /\ \A j \in DOMAIN procs' :
          Executed(executingJobs'[j].workflow.nodes, procs'[j].results)
     /\ \A j \in DOMAIN executionResults' \ DOMAIN executionResults :
          executionResults'[j].status = "completed"
            => /\ Executed(Job(j).workflow.nodes,
                           executionResults'[j].results)
               /\ Len(executionResults'[j].results)
                    = Len(Job(j).workflow.nodes)]_vars

\* a run has executed both nodes of the workflow its job carries, while
\* the table holds other nodes for the workflow, or no row at all
C26_Witness ==
  \E j \in DOMAIN procs :
    /\ procs[j].pc = "markCompleted"
    /\ Len(procs[j].results) = 2
    /\ Job(j).workflow.nodes = InitialNodes(2)
    /\ Job(j).workflowId = 2
    /\ (2 \in DOMAIN workflows
          => workflows[2].nodes = <<SlackNode, HttpNode>>)

C28_DequeueAfterTerminalAndGap ==
  [][Len(dequeued') > Len(dequeued)
       => /\ \A k \in 1..Len(dequeued) :
               /\ dequeued[k] \in DOMAIN executionResults
               /\ executionResults[dequeued[k]].status \in Terminal
          /\ Len(dequeued) > 0 => timers' = timers - 1]_vars

\* C29: no job that waits in the queue has a run record with status
\* running.
C29_NoRunRecordWhileQueued ==
  \A i \in 1..Len(jobQueue) :
    jobQueue[i].runId \in DOMAIN workflow_runs
      => workflow_runs[jobQueue[i].runId].status # "running"

\* where a job is: 0 nowhere, 1 in the queue, 2 executing, 3 with its
\* terminal result stored
Stage(id) ==
  IF id \in DOMAIN executionResults THEN 3
  ELSE IF id \in DOMAIN executingJobs THEN 2
  ELSE IF id \in Range(QueueIds) THEN 1
  ELSE 0

\* C30: every job that was pushed is in the queue, executing or has its
\* result stored, and never in two of them; a step leaves it where it is
\* or takes it one stage forward (a new job may be pushed and taken from
\* the queue in one step of the handler); a stored result is completed or
\* failed.
C30_LifecycleMovesForward ==
  [][\A id \in Range(enqueued') :
       /\ Stage(id)' >= 1
       /\ Stage(id)' >= Stage(id)
       /\ Stage(id) >= 1 => Stage(id)' <= Stage(id) + 1
       /\ Stage(id) = 0 => Stage(id)' \in {1, 2}
       /\ Cardinality({x \in {1, 2, 3} :
              \/ x = 1 /\ id \in Range(QueueIds')
              \/ x = 2 /\ id \in DOMAIN executingJobs'
              \/ x = 3 /\ id \in DOMAIN executionResults'}) = 1
       /\ Stage(id)' = 3 => executionResults'[id].status \in Terminal]_vars

\* one job has its result stored, one executes and one waits
C30_Witness ==
  /\ DOMAIN executionResults # {}
  /\ DOMAIN executingJobs # {}
  /\ Len(jobQueue) > 0

IsErrorHandler(node) == node.type = "logic" /\ node.subtype = "error-handler"

\* C31: the NodeResult of an error-handler node has success = true and a
\* result with success = true that carries the action, the message and
\* the retry count of the node's configuration; whatever the action,
\* 'Stop Workflow' included, the run goes on to the nodes after it: a run
\* past its loop, and a stored result, hold a NodeResult for every node of
\* the array.
C31_ErrorHandlerEchoesAndGoesOn ==
  /\ \A j \in DOMAIN procs :
       /\ \A k \in 1..Len(procs[j].results) :
            LET node == Job(j).workflow.nodes[k]
                r    == procs[j].results[k]
            IN  IsErrorHandler(node)
                  => /\ r.success /\ r.result.success
                     /\ r.result.result =
                          <<[action |-> node.config.action,
                             message |-> node.config.message,
                             retryCount |-> node.config.retryCount]>>
       /\ (IsErrorHandler(Job(j).workflow.nodes[1])
             /\ procs[j].pc \in {"markCompleted", "logCompleted"})
            => Executed(Job(j).workflow.nodes, procs[j].results)
               /\ Len(procs[j].results) = Len(Job(j).workflow.nodes)
  /\ \A j \in DOMAIN executionResults :
       LET nodes == workflows[executionResults[j].workflowId].nodes IN
       IsErrorHandler(nodes[1])
         => /\ executionResults[j].status = "completed"
            /\ Executed(nodes, executionResults[j].results)
            /\ Len(executionResults[j].results) = Len(nodes)

\* a run whose first node is an error handler with action 'Stop Workflow'
\* has ended with the results of both its nodes
C31_Witness ==
  \E j \in DOMAIN executionResults :
    /\ IsErrorHandler(workflows[1].nodes[1])
    /\ workflows[1].nodes[1].config.action = "Stop Workflow"
    /\ workflows[1].nodes[1].config.retryCount = 3
    /\ Len(executionResults[j].results) = 2
    /\ executionResults[j].results[2].subtype = "slack"

\* the node ids of a sequence of NodeResults or of nodes
ResultIds(results) == [k \in 1..Len(results) |-> results[k].nodeId]
NodeIds(nodes)     == [k \in 1..Len(nodes) |-> nodes[k].id]

\* the NodeResults a job has so far
ResultsOf(j) ==
  IF j \in DOMAIN procs THEN procs[j].results
  ELSE executionResults[j].results

\* the workflow id of a job that executes or has ended
WorkflowOf(j) ==
  IF j \in DOMAIN procs THEN Job(j).workflowId
  ELSE executionResults[j].workflowId

\* C32: of two runs of workflows that have the same node array and
\* different connections, whatever their conditionals evaluate to, the
\* node ids of the results of one are the first of those of the other,
\* and the same when both runs have ended; the ids of an ended run are
\* those of the node array, in its order.
C32_OrderIgnoresConnections ==
  LET Runs == DOMAIN procs \cup DOMAIN executionResults IN
  /\ \A j1 \in Runs, j2 \in Runs :
       LET w1 == workflows[WorkflowOf(j1)]
           w2 == workflows[WorkflowOf(j2)]
           s1 == ResultIds(ResultsOf(j1))
           s2 == ResultIds(ResultsOf(j2))
       IN  (w1.nodes = w2.nodes /\ w1.connections # w2.connections)
           => /\ IsPrefix(s1, s2) \/ IsPrefix(s2, s1)
              /\ ({j1, j2} \subseteq DOMAIN executionResults) => s1 = s2
  /\ \A j \in DOMAIN executionResults :
       ResultIds(executionResults[j].results)
         = NodeIds(workflows[executionResults[j].workflowId].nodes)

\* the runs of two workflows with a false conditional before a slack node,
\* one without connections and one with a connection, have ended with
\* the results of both nodes
C32_Witness ==
  \E j1 \in DOMAIN executionResults, j2 \in DOMAIN executionResults :
    /\ executionResults[j1].workflowId = 1
    /\ executionResults[j2].workflowId = 2
    /\ workflows[1].connections = <<>>
    /\ workflows[2].connections = <<Connection(5, 5)>>
    /\ workflows[1].nodes[1].subtype = "conditional"
    /\ executionResults[j1].results[1].result.result = <<FALSE>>
    /\ ResultIds(executionResults[j2].results) = <<5, 4>>

\* the positions of the start entries and of the outcome entries of node
\* n in a log
Starts(log, n) ==
  {k \in 1..Len(log) :
     /\ log[k].nodeId = n
     /\ log[k].message = "Starting execution of node"
     /\ log[k].level = "info"}
Ends(log, n) ==
  {k \in 1..Len(log) :
     /\ log[k].nodeId = n
     /\ log[k].message \in {"Node completed successfully", "Node failed"}}

\* C33: in the stored log of a run, every node that has a NodeResult has
\* one start entry and one outcome entry, the start entry first and the
\* outcome entry of level info when the NodeResult has success = true and
\* of level error otherwise, and no entry of a node comes before an entry
\* of a node that is earlier in the array.
C33_LogFollowsNodes ==
  \A j \in DOMAIN procs :
    Job(j).runId \in DOMAIN workflow_runs =>
      LET log     == workflow_runs[Job(j).runId].logs
          nodes   == Job(j).workflow.nodes
          results == procs[j].results
      IN  /\ \A i \in 1..Len(results) :
               LET n == nodes[i].id IN
               /\ Cardinality(Starts(log, n)) = 1
               /\ Cardinality(Ends(log, n)) = 1
               /\ \A a \in Starts(log, n), b \in Ends(log, n) :
                    /\ a < b
                    /\ log[b].level =
                         (IF results[i].success THEN "info" ELSE "error")
          /\ \A i1 \in 1..Len(nodes), i2 \in 1..Len(nodes) :
               i1 < i2 =>
                 \A a \in 1..Len(log), b \in 1..Len(log) :
                   (log[a].nodeId = nodes[i1].id
                      /\ log[b].nodeId = nodes[i2].id) => a < b

\* C34: the queue and the executing set together hold at most one job of
\* the scheduler for each workflow.
C34_OneSchedulerJobPerWorkflow ==
  \A w \in WorkflowIds :
    Cardinality({job \in LiveJobs :
                   job.source = "scheduler" /\ job.workflowId = w}) <= 1

\* C35: the status of a job's stored result is the status stored in its
\* run record, also when a storage call of the run has failed.
C35_ResultStatusIsRecordStatus ==
  \A j \in DOMAIN executionResults :
    executionResults[j].runId \in DOMAIN workflow_runs
      => workflow_runs[executionResults[j].runId].status
           = executionResults[j].status

\* C36: for every job that is queued or has a stored result, the reply of
\* GET /api/workflows/:id/status for the job's id has the status of the
\* reply of GET /api/jobs/:jobId/status.
C36_StatusEndpointsAgree ==
  \A j \in Range(QueueIds) \cup DOMAIN executionResults :
    /\ workflowStatus(j).code = jobStatus(j).code
    /\ workflowStatus(j).body.status = jobStatus(j).body.status

C38_HistoryIsBounded ==
  /\ \A id \in DOMAIN editor.workflowHistory :
       Len(editor.workflowHistory[id].past) <= 10
  /\ \A id \in DOMAIN editor.workflows, nodes \in HistoryEdits,
        ok \in BOOLEAN :
       LET updated == afterUpdate(editor, id, nodes, ok) IN
       /\ updated.workflowHistory[id].future = <<>>
       /\ Len(updated.workflowHistory[id].past) <= 10

\* ten states were in the past list and the last update was undone
C38_Witness ==
  /\ 2 \in DOMAIN editor.workflowHistory
  /\ Len(editor.workflowHistory[2].past) = 9
  /\ Len(editor.workflowHistory[2].future) = 1

====
